---- MODULE Spec2Model ----
(***************************************************************************)
(* A model of utils/general.py: build_targets, non_max_suppression and     *)
(* compute_ap.                                                             *)
(*                                                                         *)
(* Arithmetic is exact fixed point.  A normalised coordinate k stands for  *)
(* k / Res; after "t = targets * gain" a grid coordinate n stands for      *)
(* n / Res cells.  Anchors are in the same 1 / Res cell unit.              *)
(***************************************************************************)
EXTENDS Integers, Sequences, FiniteSets, TLC

VARIABLES
    prog,       \* which function of general.py the behaviour runs
    pc,         \* position inside that function
    targets,    \* build_targets: the nt x 6 ground-truth rows
    i,          \* build_targets: index of the scale the loop is at (1-based)
    tcls,       \* build_targets: per scale, the class of every assignment
    tbox,       \* build_targets: per scale, <<dx, dy, gw, gh>> regression targets
    indices,    \* build_targets: per scale, <<b, a, gj, gi>> index tuples
    anch,       \* build_targets: per scale, the matched anchor <<aw, ah>>
    ttar,       \* build_targets: per scale, the absolute <<gx, gy, gw, gh>>
    origin,     \* history: per scale, <<ground-truth row, anchor, direction>> of every assignment
    recall,     \* compute_ap: the recall curve, in 1 / RecScale
    precision,  \* compute_ap: the precision curve, PrecOne standing for 1.0
    mrec,       \* compute_ap: recall with the sentinels
    mpre,       \* compute_ap: precision with the sentinels, then its envelope
    ap,         \* compute_ap: the result, 2 * RecScale * PrecOne standing for 1.0
    nc,         \* non_max_suppression: number of classes, prediction.shape[2] - 5
    bs,         \* non_max_suppression: number of images, prediction.shape[0]
    nb,         \* non_max_suppression: number of rows of every image, prediction.shape[1]
    iou_thres,  \* non_max_suppression: <<numerator, denominator>>
    merge,      \* non_max_suppression: the merge argument
    classes,    \* non_max_suppression: the allow-list, [given, list]; None is not given
    agnostic,   \* non_max_suppression: the agnostic argument
    xi,         \* non_max_suppression: number of images the loop has taken
    x,          \* non_max_suppression: prediction[xi], the rows of the image taken last
    output,     \* non_max_suppression: per image, [none, rows]; none is the None marker
    elapsed,    \* non_max_suppression: time.time() - t, in seconds
    raised,     \* history: where the merge block of the image taken last raised
    model_nc,   \* compute_loss: model.nc, the number of classes
    li,         \* compute_loss: index of the layer the loop is at (1-based)
    shown,      \* vis_match: the images it has shown
    lcls,       \* compute_loss: classification loss, a fraction or nan
    lbox,       \* compute_loss: box loss
    lobj,       \* compute_loss: objectness loss
    ret,        \* compute_loss: the returned [total, items]
    gr,         \* compute_loss: model.gr, in halves
    giou,       \* compute_loss: the giou of every assignment of the layer, in halves
    tobj,       \* compute_loss: the objectness target of every slot of the layer, in quarters
    b_in,       \* functions of boxes and coordinates: the arguments
    b_mid,      \* xyxy2xywh / xywh2xyxy: the converted box
    b_out,      \* functions of boxes and coordinates: the result
    local_rank, \* torch_distributed_zero_first: the local_rank of each process
    at,         \* torch_distributed_zero_first: where each process is
    calls,      \* torch.distributed.barrier: the calls each process has made
    binding,    \* init_seeds: what the name init_seeds of the module is bound to
    frames,     \* init_seeds: the frames of the call, [seed, line], the running one last
    seeded,     \* init_seeds: the calls made to each seeding function
    outcome     \* init_seeds: how the call ended

varsBT == <<targets, i, tcls, tbox, indices, anch, ttar, origin>>
varsAP == <<recall, precision, mrec, mpre, ap>>
varsNMS == <<nc, bs, nb, iou_thres, merge, classes, agnostic, xi, x, output, elapsed, raised>>
varsLoss == <<model_nc, shown, li, lcls, lbox, lobj, ret, gr, giou, tobj>>
varsBox == <<b_in, b_mid, b_out>>
varsDist == <<local_rank, at, calls>>
varsSeed == <<binding, frames, seeded, outcome>>
varsRest == <<varsLoss, varsBox, varsDist, varsSeed>>
vars == <<prog, pc, varsBT, varsAP, varsNMS, varsRest>>

\* The variables of a function that the behaviour does not run.
IdleBT ==
    /\ targets = <<>> /\ i = 0
    /\ tcls = <<>> /\ tbox = <<>> /\ indices = <<>> /\ anch = <<>> /\ ttar = <<>>
    /\ origin = <<>>
IdleAP == recall = <<>> /\ precision = <<>> /\ mrec = <<>> /\ mpre = <<>> /\ ap = 0
IdleNMS ==
    /\ nc = 0 /\ bs = 0 /\ nb = 0 /\ iou_thres = <<0, 1>> /\ merge = FALSE
    /\ classes = [given |-> FALSE, list |-> <<>>] /\ agnostic = FALSE
    /\ xi = 0 /\ x = <<>> /\ output = <<>> /\ elapsed = 0 /\ raised = "none"
IdleLoss ==
    /\ model_nc = 0 /\ shown = 0 /\ li = 0 /\ lcls = 0 /\ lbox = 0 /\ lobj = 0
    /\ ret = [total |-> 0, items |-> <<>>]
    /\ gr = 0 /\ giou = <<>> /\ tobj = <<>>
IdleBox == b_in = <<>> /\ b_mid = <<>> /\ b_out = <<>>
IdleDist == local_rank = <<>> /\ at = <<>> /\ calls = <<>>
IdleSeed ==
    /\ binding = "unbound" /\ frames = <<>> /\ outcome = "none"
    /\ seeded = [random |-> 0, numpy |-> 0, torch |-> 0]
IdleRest == IdleLoss /\ IdleBox /\ IdleDist /\ IdleSeed

----------------------------------------------------------------------------
(* Bounds of the model. *)

\* Normalised coordinates are multiples of 1 / Res.
Res == 16
\* At most MaxTargets ground-truth rows in a batch.
MaxTargets == 2
\* At most MaxCurve points on a recall / precision curve.
MaxCurve == 3
\* Every image of a prediction has MaxBoxes rows.
MaxBoxes == 2
\* Objectness and class scores are multiples of 1 / ScoreDen.
ScoreDen == 1000
\* The clock is followed up to MaxElapsed seconds.
MaxElapsed == 11

----------------------------------------------------------------------------
(* Helpers. *)

\* The sum of s[lo..hi], by halves.
RECURSIVE SumRange(_, _, _)
SumRange(s, lo, hi) ==
    IF lo > hi THEN 0
    ELSE IF lo = hi THEN s[lo]
    ELSE SumRange(s, lo, (lo + hi) \div 2) + SumRange(s, ((lo + hi) \div 2) + 1, hi)

SeqSum(s) == SumRange(s, 1, Len(s))

\* The sequence s, worked out once.
Stored(s) == SubSeq(s, 1, Len(s))

Min2(a, b) == IF a <= b THEN a ELSE b
Max2(a, b) == IF a >= b THEN a ELSE b

\* Tensor.long(): truncation toward zero of n / d, d > 0.
Long(n, d) == IF n >= 0 THEN n \div d ELSE -((-n) \div d)

Abs(n) == IF n >= 0 THEN n ELSE -n

\* A value of n units; eps: it is zero units and holds an added 1e-16; nan: it
\* is not a number.
Num(n) == [n |-> n, eps |-> FALSE, nan |-> FALSE]

NaN == [n |-> 0, eps |-> FALSE, nan |-> TRUE]

\* A float32 holds MantBits significant bits.
MantBits == 24

\* The spacing of the float32 values around a: the power of two q with
\* 2^(MantBits - 1) * q <= a < 2^MantBits * q, and 1 below that (the unit of
\* the integers is far above the subnormal range).  a is below 2^30.
Quantum(a) ==
    CHOOSE q \in { 2^e : e \in 0..6 } :
        /\ a < q * 2^MantBits
        /\ q > 1 => a >= (q \div 2) * 2^MantBits

\* The float32 result of an addition or subtraction whose exact value is n
\* units: n rounded to MantBits significant bits, ties to the even mantissa.
Rnd(n) ==
    LET a == Abs(n)
        q == Quantum(a)
        r == a % q
        lo == a - r
        up == IF 2 * r > q \/ (2 * r = q /\ (lo \div q) % 2 = 1) THEN lo + q ELSE lo
    IN IF n >= 0 THEN up ELSE -up

----------------------------------------------------------------------------
(* build_targets *)

\* hyp['anchor_t'], the shape-ratio threshold.
anchor_t == 4

\* g = 0.5 is 1 / gDen.
gDen == 2

\* Directions with the commented-out diagonal [1, 1] in place of j.
offDiagonal == << <<0, 0>>, <<1, 1>>, <<0, 1>>, <<-1, 0>>, <<0, -1>> >>

\* off / g: the five directions o, j, k, l, m as <<x, y>>.
off == << <<0, 0>>, <<1, 0>>, <<0, 1>>, <<-1, 0>>, <<0, -1>> >>

\* p[i].shape[3] and p[i].shape[2]: grid width and height of every scale.
GridW == <<4, 2, 1>>
GridH == <<4, 2, 1>>

\* det.anchors: per scale, the anchors <<aw, ah>> in 1 / Res cells.
Anchors == << << <<16, 16>>, <<48, 16>> >>,
              << <<16, 16>>, <<4, 8>> >>,
              << <<4, 4>>, <<16, 16>> >> >>

nl == Len(Anchors)
na == Len(Anchors[1])

\* Box centres and shapes the ground truth is drawn from, in 1 / Res of the image.
Centres == { <<6, 6>>, <<9, 9>>, <<8, 8>>, <<11, 7>>, <<0, 0>>, <<16, 16>> }
Shapes == { <<4, 4>>, <<1, 4>> }
Labels == { <<0, 0>>, <<0, 1>>, <<1, 0>> }

TargetRows ==
    { [img |-> lb[1], cls |-> lb[2], x |-> c[1], y |-> c[2], w |-> s[1], h |-> s[2]] :
        lb \in Labels, c \in Centres, s \in Shapes }

\* A batch: rows come image by image, as the collate function concatenates them.
Batches ==
    { b \in UNION { [1..n -> TargetRows] : n \in 0..MaxTargets } :
        \A m \in 1..(Len(b) - 1) : b[m].img <= b[m + 1].img }

\* t = targets * gain: a row in grid units of scale s, tagged with anchor index a
\* (0-based, as ai) and with the ground-truth row gt it comes from.
Scaled(gt, a, s) ==
    [gt |-> gt, a |-> a,
     b |-> targets[gt].img, c |-> targets[gt].cls,
     gx |-> targets[gt].x * GridW[s], gy |-> targets[gt].y * GridH[s],
     gw |-> targets[gt].w * GridW[s], gh |-> targets[gt].h * GridH[s]]

\* A filter that also lets a ratio equal to the threshold through.
MaxRatioAtMost(num, den, thr) == num <= thr * den /\ den <= thr * num

\* torch.max(r, 1. / r) < thr for r = num / den with den > 0.  num = 0 gives
\* 1 / r = inf, which is not below the threshold.
MaxRatioBelow(num, den, thr) == num < thr * den /\ den < thr * num

\* j = torch.max(r, 1. / r).max(2)[0] < model.hyp['anchor_t']
ShapeFilter(t, s) ==
    LET aw == Anchors[s][t.a + 1][1]
        ah == Anchors[s][t.a + 1][2]
    IN MaxRatioBelow(t.gw, aw, anchor_t) /\ MaxRatioBelow(t.gh, ah, anchor_t)

\* t = t[j]: the candidates that survive, anchor-major, as boolean-mask indexing
\* of the [na, nt] tensor orders them.
Candidates(s) ==
    LET nt == Len(targets)
        all == [n \in 1..(na * nt) |->
                    Scaled(((n - 1) % nt) + 1, (n - 1) \div nt, s)]
    IN SelectSeq(all, LAMBDA t : ShapeFilter(t, s))

\* A neighbour test that takes a fractional part equal to g as near.
NearLowOrHalf(v) == gDen * (v % Res) <= Res /\ v > Res

\* (v % 1. < g) & (v > 1.) for a grid coordinate v >= 0.
NearLow(v) == gDen * (v % Res) < Res /\ v > Res

\* Row d of torch.stack((ones, j, k, l, m)) for candidate t.
Direction(t, d, s) ==
    LET gxi == GridW[s] * Res - t.gx
        gyi == GridH[s] * Res - t.gy
    IN CASE d = 1 -> TRUE
         [] d = 2 -> NearLow(t.gx)
         [] d = 3 -> NearLow(t.gy)
         [] d = 4 -> NearLow(gxi)
         [] d = 5 -> NearLow(gyi)

\* A placeholder row standing in for the missing ground truth.
PlaceholderTarget ==
    << [t |-> [gt |-> 0, a |-> 0, b |-> 0, c |-> 0, gx |-> 0, gy |-> 0, gw |-> 0, gh |-> 0],
        d |-> 1] >>

\* t = targets[0] when the batch has no ground truth: the empty 0 x 7 tensor.
NoTargets == <<>>

\* An expansion that drops a row when an earlier row has the same direction,
\* anchor, image, class and box.
ExpandedDistinct(s) ==
    LET cand == Candidates(s)
        n == Len(cand)
        all == [m \in 1..(5 * n) |->
                    [t |-> cand[((m - 1) % n) + 1], d |-> ((m - 1) \div n) + 1]]
        sel == SelectSeq(all, LAMBDA e : Direction(e.t, e.d, s))
        first == SelectSeq([m \in 1..Len(sel) |-> m],
                    LAMBDA m : \A q \in 1..(m - 1) :
                        sel[q].d # sel[m].d \/ [sel[q].t EXCEPT !.gt = 0] # [sel[m].t EXCEPT !.gt = 0])
    IN IF Len(targets) # 0
       THEN [m \in 1..Len(first) |-> sel[first[m]]]
       ELSE NoTargets

\* t.repeat((5, 1, 1))[j] with offsets: direction-major, each row tagged with d.
Expanded(s) ==
    LET cand == Candidates(s)
        n == Len(cand)
        all == [m \in 1..(5 * n) |->
                    [t |-> cand[((m - 1) % n) + 1], d |-> ((m - 1) \div n) + 1]]
    IN IF Len(targets) # 0
       THEN SelectSeq(all, LAMBDA e : Direction(e.t, e.d, s))
       ELSE NoTargets

\* A cell index with offsets of a whole cell, off without the factor g.
GijWhole(v, o) == Long(v - o * Res, Res)

\* gij = (gxy - offsets).long(), one axis: v - o * g.
Gij(v, o) == Long(gDen * v - o * Res, gDen * Res)

Gi(e) == Gij(e.t.gx, off[e.d][1])
Gj(e) == Gij(e.t.gy, off[e.d][2])

\* An anchor index that moves on by one with every direction.
AnchorIndexTurned(e) == (e.t.a + e.d - 1) % na

\* a = t[:, 6].long(): the anchor index that the row carries in its column 6.
AnchorIndex(e) == e.t.a

BuildScale ==
    /\ prog \in {"build_targets", "compute_loss"}
    /\ pc = "loop"
    /\ i <= nl
    /\ \E rows \in {Expanded(i)} :
          /\ indices' = Append(indices,
                [m \in 1..Len(rows) |->
                    <<rows[m].t.b, AnchorIndex(rows[m]), Gj(rows[m]), Gi(rows[m])>>])
          /\ tbox' = Append(tbox,
                [m \in 1..Len(rows) |->
                    <<rows[m].t.gx - Gi(rows[m]) * Res, rows[m].t.gy - Gj(rows[m]) * Res,
                      rows[m].t.gw, rows[m].t.gh>>])
          /\ ttar' = Append(ttar,
                [m \in 1..Len(rows) |->
                    <<rows[m].t.gx, rows[m].t.gy, rows[m].t.gw, rows[m].t.gh>>])
          /\ anch' = Append(anch,
                [m \in 1..Len(rows) |-> Anchors[i][AnchorIndex(rows[m]) + 1]])
          /\ tcls' = Append(tcls, [m \in 1..Len(rows) |-> rows[m].t.c])
          /\ origin' = Append(origin,
                [m \in 1..Len(rows) |-> <<rows[m].t.gt, rows[m].t.a, rows[m].d>>])
    /\ i' = i + 1
    /\ UNCHANGED <<prog, pc, targets, varsAP, varsNMS, varsRest>>

\* return tcls, tbox, indices, anch, ttar: to the caller when that is
\* compute_loss, which calls vis_match next.
BuildReturn ==
    /\ prog \in {"build_targets", "compute_loss"}
    /\ pc = "loop"
    /\ i > nl
    /\ pc' = IF prog = "compute_loss" THEN "vis_match" ELSE "done"
    /\ UNCHANGED <<prog, varsBT, varsAP, varsNMS, varsRest>>

InitBT ==
    /\ prog = "build_targets"
    /\ pc = "loop"
    /\ targets \in Batches
    /\ i = 1
    /\ tcls = <<>> /\ tbox = <<>> /\ indices = <<>> /\ anch = <<>> /\ ttar = <<>>
    /\ origin = <<>>
    /\ IdleAP /\ IdleNMS /\ IdleRest

NextBT == BuildScale \/ BuildReturn

SpecBT == InitBT /\ [][NextBT]_vars

----------------------------------------------------------------------------
(* compute_loss *)

\* BCEcls(ps[:, 5:], t) and BCEobj(pi[..., 4], tobj) of one layer: values on the
\* predictions p, which the model leaves open: zero, which float32 gives the
\* loss of saturated logits, and one positive value.
LossTerms == {0, 1}

\* balance = [4.0, 1.0, 0.4] if np == 3 else [4.0, 1.0, 0.4, 0.1], in tenths.
balance == IF nl = 3 THEN <<40, 10, 4>> ELSE <<40, 10, 4, 1>>

\* h = model.hyp: the gains h['giou'], h['obj'] and h['cls'], in thousandths.
h == [giou |-> 50, obj |-> 1000, cls |-> 580]

\* p[0].shape[0]: the images of the batch.
BatchImages == 2

\* A guard that takes a single class for several.
AnyClass(n) == n > 0

\* if model.nc > 1
MultiClass(n) == n > 1

\* The slots of tobj = torch.zeros_like(pi[..., 0]) for scale s: <<b, a, gj, gi>>.
Slots(s) == (0..(BatchImages - 1)) \X (0..(na - 1)) \X (0..(GridH[s] - 1)) \X (0..(GridW[s] - 1))

\* The assignments of scale s that point to slot.
Pointing(s, slot) == { m \in 1..Len(indices[s]) : indices[s][m] = slot }

\* The k-th smallest member of the set of numbers S.
Nth(S, k) == CHOOSE m \in S : Cardinality({ q \in S : q < m }) = k - 1

\* The most assignments that point to one slot of scale s, and 1 when none does.
MaxPointing(s) ==
    LET n == Len(indices[s])
        counts == { Cardinality(Pointing(s, indices[s][m])) : m \in 1..n }
    IN IF n = 0 THEN 1 ELSE CHOOSE c \in counts : \A d \in counts : d <= c

\* The values of giou that the predictions give an assignment, in halves: one
\* below zero, one between zero and one, and one.
GiouVals == {-1, 1, 2}

\* The first assignment of scale s that reads the prediction of the same slot
\* and has the same regression target as assignment m.
FirstAlike(s, m) ==
    CHOOSE q \in 1..m :
        /\ indices[s][q] = indices[s][m] /\ tbox[s][q] = tbox[s][m]
        /\ \A r \in 1..(q - 1) : indices[s][r] # indices[s][m] \/ tbox[s][r] # tbox[s][m]

\* The sets of slots of scale s whose prediction decodes to a box of width and
\* height so small that w1 and h1 of bbox_iou are zero: every set of slots
\* that an assignment points to, as each slot has a prediction of its own.
CollapsedSets(s) == SUBSET { indices[s][m] : m \in 1..Len(indices[s]) }

\* giou = bbox_iou(pbox.T, tbox[i], x1y1x2y2=False, CIoU=True) for the
\* assignments of scale s: a function of the prediction of the slot, its
\* anchor and the regression target, so assignments alike in these have the
\* same giou, the value val gives the first of them.  The rows that read a
\* collapsed slot get the nan of w1 / h1.
Giou(s, val, collapsed) ==
    [m \in 1..Len(indices[s]) |->
        IF indices[s][m] \in collapsed THEN NaN
        ELSE Num(val[FirstAlike(s, m)])]

\* The giou that the predictions can give the assignments of scale s: every
\* value for every group of assignments alike, and every set of collapsed slots.
Gious(s) ==
    LET firsts == { FirstAlike(s, m) : m \in 1..Len(indices[s]) }
    IN { Giou(s, val, collapsed) :
            val \in [firsts -> GiouVals], collapsed \in CollapsedSets(s) }

\* (1.0 - model.gr) + model.gr * giou.detach().clamp(0), in quarters; clamp
\* leaves a nan as it is.
ObjTarget(g) == IF g.nan THEN NaN ELSE Num(2 * (2 - gr) + gr * Max2(g.n, 0))

\* tobj after tobj[b, a, gj, gi] = ...: a slot that several assignments point
\* to holds the value of one of them, the w-th of them counted cyclically
\* (index_put_ leaves open which one).
Tobj(s, gs, w) ==
    [slot \in Slots(s) |->
        LET rows == Pointing(s, slot)
        IN IF rows = {} THEN Num(0)
           ELSE ObjTarget(gs[Nth(rows, ((w - 1) % Cardinality(rows)) + 1)])]

\* Which of the assignments that point to one slot is written last: open
\* between 1 and MaxPointing(s) when two of them differ in gs, and the first
\* otherwise, as every order then writes the same targets.
Writers(s, gs) ==
    IF \E m \in 1..Len(gs) : \E q \in 1..(m - 1) :
            indices[s][q] = indices[s][m] /\ gs[q] # gs[m]
    THEN 1..MaxPointing(s)
    ELSE {1}

\* The greatest common divisor of a >= 0 and b >= 0.
RECURSIVE Gcd(_, _)
Gcd(a, b) == IF b = 0 THEN a ELSE Gcd(b, a % b)

\* A loss: the fraction n / d in lowest terms, d > 0, or nan.
Frac(n, d) ==
    LET g == Gcd(Abs(n), d) IN [n |-> n \div g, d |-> d \div g, nan |-> FALSE]

NaNLoss == [n |-> 0, d |-> 1, nan |-> TRUE]

\* a + b, and a * n / d, of losses: nan stays nan.
Plus(a, b) ==
    IF a.nan \/ b.nan THEN NaNLoss
    ELSE LET g == Gcd(a.d, b.d)
         IN Frac(a.n * (b.d \div g) + b.n * (a.d \div g), (a.d \div g) * b.d)
Times(a, n, d) == IF a.nan THEN NaNLoss ELSE Frac(a.n * n, a.d * d)

\* (1.0 - giou).mean() for the giou gs of a layer with assignments.
BoxLoss(gs) ==
    IF \E m \in 1..Len(gs) : gs[m].nan THEN NaNLoss
    ELSE Frac(SeqSum([m \in 1..Len(gs) |-> 2 - gs[m].n]), 2 * Len(gs))

\* vis_match(imgs, targets, tcls, tbox, indices, anchors, p, ttar), one turn of
\* "for j in range(imgs.shape[0])": "for i in range(3)" reads pred[i] and
\* indices[i], an IndexError with fewer than 3 layers; the drawing raises where
\* numpy has no np.float or cv2 has no display; else show_img shows the
\* image and waits in cv2.waitKey(0).
VisMatch ==
    /\ prog = "compute_loss"
    /\ pc = "vis_match"
    /\ IF nl < 3
       THEN pc' = "raised"
       ELSE \E drawn \in BOOLEAN : pc' = IF drawn THEN "waitKey" ELSE "raised"
    /\ UNCHANGED <<prog, varsBT, varsAP, varsNMS, varsRest>>

\* A key is pressed and cv2.waitKey(0) returns: vis_match goes on with the
\* next image, or returns after the last.
KeyPressed ==
    /\ prog = "compute_loss"
    /\ pc = "waitKey"
    /\ shown' = shown + 1
    /\ pc' = IF shown + 1 < BatchImages THEN "vis_match" ELSE "layers"
    /\ UNCHANGED <<prog, model_nc, li, lcls, lbox, lobj, ret, gr, giou, tobj,
                   varsBT, varsAP, varsNMS, varsBox, varsDist, varsSeed>>

\* The body of "for i, pi in enumerate(p)" for layer li.  tobj starts at zeros;
\* with n assignments giou is computed, lbox += (1.0 - giou).mean(), the
\* targets of the slots pointed to are written and, for several classes,
\* lcls += BCEcls(...); then lobj += BCEobj(pi[..., 4], tobj) * balance[i], nan
\* when a target is.  pi[b, a, gj, gi] raises an IndexError when an index
\* tuple is not a slot of the layer.
LossLayer ==
    /\ prog = "compute_loss"
    /\ pc = "layers"
    /\ li <= nl
    /\ IF \A m \in 1..Len(indices[li]) : indices[li][m] \in Slots(li)
       THEN /\ \E gs \in Gious(li) : \E w \in Writers(li, gs) :
                  LET ts == Tobj(li, gs, w)
                  IN /\ tobj' = ts
                     /\ IF Len(indices[li]) # 0
                        THEN /\ giou' = gs
                             /\ lbox' = Plus(lbox, BoxLoss(gs))
                             /\ IF MultiClass(model_nc)
                                THEN \E vc \in LossTerms : lcls' = Plus(lcls, Frac(vc, 1))
                                ELSE lcls' = lcls
                        ELSE UNCHANGED <<giou, lbox, lcls>>
                     /\ IF \E slot \in Slots(li) : ts[slot].nan
                        THEN lobj' = NaNLoss
                        ELSE \E vo \in LossTerms : lobj' = Plus(lobj, Frac(vo * balance[li], 10))
            /\ li' = li + 1
            /\ UNCHANGED pc
       ELSE /\ pc' = "raised"
            /\ UNCHANGED <<li, lbox, lcls, lobj, giou, tobj>>
    /\ UNCHANGED <<prog, model_nc, shown, ret, gr, varsBT, varsAP, varsNMS, varsBox, varsDist, varsSeed>>

\* The scaling of the three losses by the gains and s = 3 / np, and by 1.4 or
\* 1. for lobj, loss = lbox + lobj + lcls, and
\* return loss * bs, torch.cat((lbox, lobj, lcls, loss)).
LossReturn ==
    /\ prog = "compute_loss"
    /\ pc = "layers"
    /\ li > nl
    /\ lbox' = Times(lbox, h.giou * 3, 1000 * nl)
    /\ lobj' = Times(lobj, h.obj * 3 * (IF nl = 4 THEN 14 ELSE 10), 1000 * nl * 10)
    /\ lcls' = Times(lcls, h.cls * 3, 1000 * nl)
    /\ ret' = [total |-> Times(Plus(Plus(lbox', lobj'), lcls'), BatchImages, 1),
                items |-> <<lbox', lobj', lcls', Plus(Plus(lbox', lobj'), lcls')>>]
    /\ pc' = "done"
    /\ UNCHANGED <<prog, model_nc, shown, li, gr, giou, tobj, varsBT, varsAP, varsNMS, varsBox, varsDist, varsSeed>>

\* model.gr: 0.5 and 1.
GrVals == {1, 2}

\* The centres of the ground truth compute_loss is run on: the corner of the
\* image and a centre in the same cell of every scale, the centre of the
\* image, whose neighbour cells get assignments too, and the corner across.
LossCentres == { <<0, 0>>, <<2, 2>>, <<8, 8>>, <<16, 16>> }

\* The batches compute_loss is run on: no ground truth, one, or two of one
\* cell of the first layer in the order of their centres, each of the first
\* image and the first class and of the square shape that one anchor of
\* every layer matches.
LossBatches ==
    LET rows == { [img |-> 0, cls |-> 0, x |-> c[1], y |-> c[2], w |-> 2, h |-> 2] :
                    c \in LossCentres }
    IN { b \in UNION { [1..n -> rows] : n \in 0..2 } :
            \A m \in 1..Len(b) :
                /\ b[1].x <= b[m].x
                /\ (b[m].x * GridW[1]) \div Res = (b[1].x * GridW[1]) \div Res
                /\ (b[m].y * GridH[1]) \div Res = (b[1].y * GridH[1]) \div Res }

InitLoss ==
    /\ prog = "compute_loss"
    /\ pc = "loop"
    /\ model_nc \in {1, 2}
    /\ targets \in LossBatches
    /\ i = 1
    /\ tcls = <<>> /\ tbox = <<>> /\ indices = <<>> /\ anch = <<>> /\ ttar = <<>>
    /\ origin = <<>>
    /\ shown = 0
    /\ li = 1 /\ lcls = Frac(0, 1) /\ lbox = Frac(0, 1) /\ lobj = Frac(0, 1)
    /\ ret = [total |-> Frac(0, 1), items |-> <<>>]
    /\ gr \in GrVals /\ giou = <<>> /\ tobj = <<>>
    /\ IdleAP /\ IdleNMS /\ IdleBox /\ IdleDist /\ IdleSeed

NextLoss == BuildScale \/ BuildReturn \/ VisMatch \/ KeyPressed \/ LossLayer \/ LossReturn

SpecLoss == InitLoss /\ [][NextLoss]_vars

----------------------------------------------------------------------------
(* compute_ap *)

\* Recall is in units of the 1E-3 that the end sentinel adds: RecScale stands for 1.0.
RecScale == 1000

\* Precision 1.0.  A multiple of 300 keeps every interpolated value of the
\* curves below an integer.
PrecOne == 2 * 300

\* np.linspace(0, 1, 101) has ApPoints points.
ApPoints == 101

RecallVals == {0, 250, 500, 750, 1000}
PrecVals == {0, 300, 600}

\* Recall curves are cumulative, hence non-decreasing.
Curves ==
    { c \in UNION { [1..n -> RecallVals \X PrecVals] : n \in 1..MaxCurve } :
        \A m \in 1..(Len(c) - 1) : c[m][1] <= c[m + 1][1] }

\* np.maximum.accumulate(p), the running maximum from the first element on.
EnvelopeForward(p) ==
    LET F[n \in 1..Len(p)] == IF n = 1 THEN p[1] ELSE Max2(F[n - 1], p[n])
    IN [n \in 1..Len(p) |-> F[n]]

\* np.flip(np.maximum.accumulate(np.flip(p))): the running maximum from the last element back.
Envelope(p) ==
    LET F[n \in 1..Len(p)] == IF n = Len(p) THEN p[n] ELSE Max2(F[n + 1], p[n])
    IN [n \in 1..Len(p) |-> F[n]]

\* np.interp(xv, xp, fp) for non-decreasing xp: beyond xp[-1] the value is fp[-1];
\* otherwise j is the last index with xp[j] <= xv, and the value is fp[j] when j is
\* the last index or xp[j] = xv, else the linear interpolation on [xp[j], xp[j + 1]].
Interp(xv, xp, fp) ==
    LET last == Len(xp)
        j == CHOOSE n \in 0..last :
                /\ \A m \in 1..n : xp[m] <= xv
                /\ n < last => xp[n + 1] > xv
    IN IF xv > xp[last] THEN fp[last]
       ELSE IF j = 0 THEN fp[1]
       ELSE IF j = last \/ xp[j] = xv THEN fp[j]
       ELSE fp[j] + ((fp[j + 1] - fp[j]) * (xv - xp[j])) \div (xp[j + 1] - xp[j])

\* x = np.linspace(0, 1, 101), point n of it (0-based).
Linspace(n) == (n * RecScale) \div (ApPoints - 1)

\* 2 * np.trapz(np.interp(x, mrec, mpre), x)
Trapz2(xp, fp) ==
    LET y == [n \in 0..(ApPoints - 1) |-> Interp(Linspace(n), xp, fp)]
        area == [n \in 1..(ApPoints - 1) |->
                    (y[n] + y[n - 1]) * (Linspace(n) - Linspace(n - 1))]
    IN SeqSum(area)

\* mrec = [0, recall, min(recall[-1] + 1E-3, 1)], mpre = [0, precision, 0]
ApSentinel ==
    /\ prog = "compute_ap"
    /\ pc = "sentinel"
    /\ mrec' = <<0>> \o recall \o <<Min2(recall[Len(recall)] + 1, RecScale)>>
    /\ mpre' = <<0>> \o precision \o <<0>>
    /\ pc' = "envelope"
    /\ UNCHANGED <<prog, recall, precision, ap, varsBT, varsNMS, varsRest>>

ApEnvelope ==
    /\ prog = "compute_ap"
    /\ pc = "envelope"
    /\ mpre' = Envelope(mpre)
    /\ pc' = "integrate"
    /\ UNCHANGED <<prog, recall, precision, mrec, ap, varsBT, varsNMS, varsRest>>

ApIntegrate ==
    /\ prog = "compute_ap"
    /\ pc = "integrate"
    /\ ap' = Trapz2(mrec, mpre)
    /\ pc' = "done"
    /\ UNCHANGED <<prog, recall, precision, mrec, mpre, varsBT, varsNMS, varsRest>>

InitAP ==
    /\ prog = "compute_ap"
    /\ pc = "sentinel"
    /\ \E c \in Curves :
        /\ recall = [n \in 1..Len(c) |-> c[n][1]]
        /\ precision = [n \in 1..Len(c) |-> c[n][2]]
    /\ mrec = <<>> /\ mpre = <<>> /\ ap = 0
    /\ IdleBT /\ IdleNMS /\ IdleRest

NextAP == ApSentinel \/ ApEnvelope \/ ApIntegrate

SpecAP == InitAP /\ [][NextAP]_vars

----------------------------------------------------------------------------
(* non_max_suppression *)

\* conf_thres = 0.1, as <<numerator, denominator>>.
conf_thres == <<1, 10>>

\* max_wh, max_det, time_limit and the 3E3 of the merge condition.
max_wh == 4096
max_det == 300
time_limit == 10
MergeLimit == 3000

\* redundant = True
redundant == TRUE

\* Boxes (cx, cy, w, h) in pixels.  BoxNear overlaps BoxBase with IoU 0.6: above
\* one of the thresholds of IouThresholds and not above the other.  BoxFar is
\* BoxNear max_wh pixels further along both axes.
BoxBase == <<8, 8, 8, 8>>
BoxNear == <<10, 8, 8, 8>>
BoxFar == <<10 + max_wh, 8 + max_wh, 8, 8>>

\* The rows an image is drawn from: [box, obj, cls], the scores in 1 / ScoreDen.
\* The first is above conf_thres in both classes; the second is the same box,
\* above it in the first class only; the third is above it in the second class
\* and equal to it in the first; the next two have an objectness equal to it;
\* the last is far from the others and above it in the first class only.
PredRows ==
    << [box |-> BoxBase, obj |-> 900, cls |-> <<900, 800>>],
       [box |-> BoxBase, obj |-> 800, cls |-> <<900, 100>>],
       [box |-> BoxNear, obj |-> 500, cls |-> <<200, 900>>],
       [box |-> BoxNear, obj |-> 100, cls |-> <<900, 900>>],
       [box |-> BoxBase, obj |-> 100, cls |-> <<900, 900>>],
       [box |-> BoxFar, obj |-> 400, cls |-> <<300, 100>>] >>

\* Row k of a crowded image: the boxes are apart on a grid of CrowdSide
\* columns, and every row has a score of its own, above conf_thres in the
\* first class only.
CrowdSide == 25
CrowdRow(k) ==
    LET l == k - 1
    IN [box |-> <<8 + 10 * (l % CrowdSide), 8 + 10 * (l \div CrowdSide), 8, 8>>,
        obj |-> ScoreDen, cls |-> <<ScoreDen - k, 0>>]

\* Crowded images hold max_det different boxes, or one more.
CrowdSizes == { max_det, max_det + 1 }

\* The images of a prediction with n classes and rows rows of 5 + n columns.
\* Up to Len(PredRows) rows they are different rows of PredRows, listed in the
\* order of PredRows: every other image of different rows is a permutation of
\* one of these.  Beyond that it is the crowded image.
Images(n, rows) ==
    IF rows <= Len(PredRows)
    THEN { [k \in 1..rows |-> [PredRows[f[k]] EXCEPT !.cls = SubSeq(@, 1, n)]] :
            f \in { g \in [1..rows -> 1..Len(PredRows)] :
                        \A k \in 1..(rows - 1) : g[k] < g[k + 1] } }
    ELSE { [k \in 1..rows |-> [CrowdRow(k) EXCEPT !.cls = SubSeq(@, 1, n)]] }

BatchSizes == {1, 2}
ClassCounts == {1, 2}
IouThresholds == { <<1, 2>>, <<3, 5>> }
\* None, [] and [0].
ClassLists ==
    { [given |-> FALSE, list |-> <<>>], [given |-> TRUE, list |-> <<>>],
      [given |-> TRUE, list |-> <<0>>] }
\* What the clock may advance by while one image is handled.
TimeSteps == {0, time_limit + 1}

\* The None marker, and the output of an image that got one.
None == [none |-> TRUE, rows |-> <<>>]
Detections(rows) == [none |-> FALSE, rows |-> rows]

\* xywh2xyxy; the result is in halves of the unit of b, so that w / 2 is exact.
xywh2xyxy(b) ==
    <<Rnd(2 * b[1] - b[3]), Rnd(2 * b[2] - b[4]), Rnd(2 * b[1] + b[3]), Rnd(2 * b[2] + b[4])>>

\* A threshold test that lets a value equal to conf_thres through.
AtLeastConf(v, den) == v * conf_thres[2] >= conf_thres[1] * den

\* v > conf_thres for v in 1 / den.
AboveConf(v, den) == v * conf_thres[2] > conf_thres[1] * den

\* x = x[xc[xi]]: the rows whose objectness is above conf_thres.
ByObjectness(img) == SelectSeq(img, LAMBDA r : AboveConf(r.obj, ScoreDen))

\* A confidence that leaves the objectness out.
ConfOfClass(r, c) == ScoreDen * r.cls[c]

\* x[:, 5:] *= x[:, 4:5]: the confidence of class c (1-based) of row r, in 1 / ScoreDen^2.
Conf(r, c) == r.obj * r.cls[c]

\* x[:, 5:].max(1): the first class of the highest confidence.
BestClass(r) ==
    CHOOSE c \in 1..Len(r.cls) :
        /\ \A d \in 1..Len(r.cls) : Conf(r, d) <= Conf(r, c)
        /\ \A d \in 1..(c - 1) : Conf(r, d) < Conf(r, c)

\* A row of the detections matrix: xyxy over den in half pixels, conf, cls
\* (0-based), and the row of the image it comes from.
Detection(rows, k, c) ==
    [box |-> xywh2xyxy(rows[k].box), den |-> 1, conf |-> Conf(rows[k], c), cls |-> c - 1,
     src |-> k]

\* The detections matrix: one row per (box, class) above conf_thres when
\* multi_label, else the best class of every box if it is above conf_thres.
DetectionMatrix(rows) ==
    LET n == Len(rows)
        m == Len(rows[1].cls)
        pairs == [q \in 1..(n * m) |-> <<((q - 1) \div m) + 1, ((q - 1) % m) + 1>>]
        multi == SelectSeq(pairs, LAMBDA q : AboveConf(Conf(rows[q[1]], q[2]), ScoreDen * ScoreDen))
        best == SelectSeq([k \in 1..n |-> <<k, BestClass(rows[k])>>],
                          LAMBDA q : AboveConf(Conf(rows[q[1]], q[2]), ScoreDen * ScoreDen))
        kept == IF m > 1 THEN multi ELSE best
    IN Stored([q \in 1..Len(kept) |-> Detection(rows, kept[q][1], kept[q][2])])

\* if classes: x = x[(x[:, 5:6] == torch.tensor(classes)).any(1)]
\* A list that is None or empty is false, and no row is filtered.
ByClass(det, cl) ==
    IF cl.given /\ cl.list # <<>>
    THEN SelectSeq(det, LAMBDA r : \E k \in 1..Len(cl.list) : cl.list[k] = r.cls)
    ELSE det

\* The detections matrix of an image after the class filter; none when no row is
\* above conf_thres.
CandidateRows(img, cl) ==
    IF ByObjectness(img) = <<>> THEN <<>>
    ELSE ByClass(DetectionMatrix(ByObjectness(img)), cl)

\* boxes = x[:, :4] + c with c = cls * (0 if agnostic else max_wh), in half pixels.
OffsetBox(r, agn) ==
    LET c == 2 * r.cls * (IF agn THEN 0 ELSE max_wh)
    IN <<r.box[1] + c, r.box[2] + c, r.box[3] + c, r.box[4] + c>>

BoxArea(b) == (b[3] - b[1]) * (b[4] - b[2])

\* An intersection without the clamp at zero.
InterNoClamp(b1, b2) ==
    (Min2(b1[3], b2[3]) - Max2(b1[1], b2[1])) * (Min2(b1[4], b2[4]) - Max2(b1[2], b2[2]))

Inter(b1, b2) ==
    LET w == Min2(b1[3], b2[3]) - Max2(b1[1], b2[1])
    IN IF w <= 0 THEN 0 ELSE w * Max2(Min2(b1[4], b2[4]) - Max2(b1[2], b2[2]), 0)

\* An overlap test that leaves the intersection in the denominator.
IouAboveNoUnion(b1, b2, thr) ==
    LET inter == Inter(b1, b2)
    IN inter * thr[2] > thr[1] * (BoxArea(b1) + BoxArea(b2))

\* inter / (area1 + area2 - inter) > thr, for boxes of positive area.
IouAbove(b1, b2, thr) ==
    LET inter == Inter(b1, b2)
    IN inter > 0 /\ inter * thr[2] > thr[1] * (BoxArea(b1) + BoxArea(b2) - inter)

\* The orders in which a sort by descending score may visit the rows: rows of
\* equal score come in any order.
RECURSIVE OrdersOf(_, _)
OrdersOf(scores, left) ==
    IF left = {} THEN { <<>> }
    ELSE UNION { { <<k>> \o o : o \in OrdersOf(scores, left \ {k}) } :
                    k \in { m \in left : \A q \in left : scores[q] <= scores[m] } }

\* Scores that are all different have one order: row m comes after the rows
\* of a higher score.
Orders(scores) ==
    LET n == Len(scores)
        rank == Stored([m \in 1..n |->
                            1 + Cardinality({ q \in 1..n : scores[q] > scores[m] })])
    IN IF \A m \in 1..n : \A q \in (m + 1)..n : scores[q] # scores[m]
       THEN { Stored([k \in 1..n |-> CHOOSE m \in 1..n : rank[m] = k]) }
       ELSE OrdersOf(scores, 1..n)

\* The boxes kept once o[lo..hi] have been visited after the boxes of kept: a
\* box is kept unless a box kept before it overlaps it above thr.
RECURSIVE NmsRange(_, _, _, _, _, _)
NmsRange(boxes, o, thr, kept, lo, hi) ==
    IF lo > hi THEN kept
    ELSE IF lo = hi
         THEN IF \E k \in 1..Len(kept) : IouAbove(boxes[kept[k]], boxes[o[lo]], thr)
              THEN kept
              ELSE Append(kept, o[lo])
    ELSE LET mid == (lo + hi) \div 2
             half == NmsRange(boxes, o, thr, kept, lo, mid)
         IN \* the first half is worked out before the second is visited
            IF half = <<>>
            THEN NmsRange(boxes, o, thr, <<>>, mid + 1, hi)
            ELSE NmsRange(boxes, o, thr, half, mid + 1, hi)

\* torchvision.ops.boxes.nms visiting the boxes in order o.
Nms(boxes, o, thr) == NmsRange(boxes, o, thr, <<>>, 1, Len(o))

\* No limit on the number of kept rows.
NoLimit(keep) == keep

\* i = i[:max_det]
Limit(keep) == IF Len(keep) > max_det THEN SubSeq(keep, 1, max_det) ELSE keep

\* weights = iou * scores[None], row k: the score of every row that overlaps boxes[k] above thr.
Weights(boxes, det, k, thr) ==
    Stored([m \in 1..Len(det) |-> IF IouAbove(boxes[k], boxes[m], thr) THEN det[m].conf ELSE 0])

\* x[i, :4] = torch.mm(weights, x[:, :4]) / weights.sum(1): rows keep are replaced
\* by the weighted mean of the rows that overlap them.
Merged(det, boxes, keep, thr) ==
    [m \in 1..Len(det) |->
        IF \E k \in 1..Len(keep) : keep[k] = m
        THEN LET w == Weights(boxes, det, m, thr)
             IN [det[m] EXCEPT
                    !.box = [c \in 1..4 |-> SeqSum([q \in 1..Len(det) |-> w[q] * det[q].box[c]])],
                    !.den = SeqSum(w)]
        ELSE det[m]]

\* i = i[iou.sum(1) > 1]
Redundant(boxes, keep, thr) ==
    SelectSeq(keep, LAMBDA k :
        Cardinality({m \in 1..Len(boxes) : IouAbove(boxes[k], boxes[m], thr)}) > 1)

\* output[xi] = x[i] after the guarded merge block, xm being x with the merged
\* boxes: the block replaced the kept rows of x by their merged boxes unless it
\* raised before that (fail = "before"), and it filtered i unless it raised at all.
MergeOutput(det, xm, boxes, keep, thr, fail) ==
    LET xx == IF fail = "before" THEN det ELSE xm
        ii == IF fail = "none" /\ redundant THEN Redundant(boxes, keep, thr) ELSE keep
    IN [q \in 1..Len(ii) |-> xx[ii[q]]]

\* The outcomes of the merge block for the kept rows keep: one per place where
\* it raises, each with that place.
MergeOutputs(det, boxes, keep, thr) ==
    LET xm == Merged(det, boxes, keep, thr)
    IN { [rows |-> MergeOutput(det, xm, boxes, keep, thr, fail), raised |-> fail] :
            fail \in {"none", "before", "after"} }

\* boxes = x[:, :4] + c
Boxes(det) == Stored([m \in 1..Len(det) |-> OffsetBox(det[m], agnostic)])

\* i after the nms and the limit: one per order of the sort.
Keeps(det, boxes) ==
    { Limit(Nms(boxes, o, iou_thres)) :
        o \in Orders(Stored([m \in 1..Len(det) |-> det[m].conf])) }

\* x[i]
Rows(det, keep) == [q \in 1..Len(keep) |-> det[keep[q]]]

\* The outputs that the steps from "Batched NMS" on may give for the detections
\* matrix det: one per order of the sort and per place where the merge block
\* raises, each with that place.
NmsOutputs(det) ==
    LET boxes == Boxes(det)
        keeps == Keeps(det, boxes)
    IN IF merge /\ 1 < Len(det) /\ Len(det) < MergeLimit
       THEN UNION { MergeOutputs(det, boxes, keep, iou_thres) : keep \in keeps }
       ELSE { [rows |-> Rows(det, keep), raised |-> "none"] : keep \in keeps }

\* One iteration of "for xi, x in enumerate(prediction)".  The image is drawn
\* when the loop reaches it, and dt is the time the iteration takes.  An image
\* without a row above conf_thres, or without a row left after the class
\* filter, is passed over by "continue", before the check of the time limit.
NmsImage ==
    /\ prog = "non_max_suppression"
    /\ pc = "loop"
    /\ xi < bs
    /\ \E img \in Images(nc, nb) :
        /\ xi' = xi + 1
        /\ x' = img
        /\ \E det \in { CandidateRows(img, classes) } :
            IF det = <<>>
            THEN /\ \E dt \in TimeSteps :
                        elapsed + dt <= MaxElapsed /\ elapsed' = elapsed + dt
                 /\ raised' = "none"
                 /\ UNCHANGED <<output, pc>>
            ELSE /\ \E out \in NmsOutputs(det) :
                        /\ output' = [output EXCEPT ![xi + 1] = Detections(out.rows)]
                        /\ raised' = out.raised
                 /\ \E dt \in TimeSteps :
                        /\ elapsed + dt <= MaxElapsed
                        /\ elapsed' = elapsed + dt
                        /\ pc' = IF elapsed + dt > time_limit THEN "return" ELSE "loop"
    /\ UNCHANGED <<prog, nc, bs, nb, iou_thres, merge, classes, agnostic, varsBT, varsAP, varsRest>>

\* return output, after the last image or after the break; the loop variable is gone.
NmsReturn ==
    /\ prog = "non_max_suppression"
    /\ (pc = "loop" /\ xi = bs) \/ pc = "return"
    /\ pc' = "done"
    /\ x' = <<>>
    /\ UNCHANGED <<prog, nc, bs, nb, iou_thres, merge, classes, agnostic, xi, output, elapsed,
                   raised, varsBT, varsAP, varsRest>>

InitNMS ==
    /\ prog = "non_max_suppression"
    /\ pc = "loop"
    /\ nc \in ClassCounts
    /\ bs \in BatchSizes
    /\ nb = MaxBoxes
    /\ iou_thres \in IouThresholds
    /\ merge \in BOOLEAN
    /\ classes \in ClassLists
    /\ agnostic \in BOOLEAN
    /\ xi = 0
    /\ x = <<>>
    /\ output = [k \in 1..bs |-> None]
    /\ elapsed = 0
    /\ raised = "none"
    /\ IdleBT /\ IdleAP /\ IdleRest

NextNMS == NmsImage \/ NmsReturn

SpecNMS == InitNMS /\ [][NextNMS]_vars

\* non_max_suppression on a prediction of crowded images.
InitCrowd ==
    /\ prog = "non_max_suppression"
    /\ pc = "loop"
    /\ nc = 1
    /\ bs = 1
    /\ nb \in CrowdSizes
    /\ iou_thres \in IouThresholds
    /\ merge \in BOOLEAN
    /\ classes = [given |-> FALSE, list |-> <<>>]
    /\ agnostic \in BOOLEAN
    /\ xi = 0
    /\ x = <<>>
    /\ output = [k \in 1..bs |-> None]
    /\ elapsed = 0
    /\ raised = "none"
    /\ IdleBT /\ IdleAP /\ IdleRest

SpecCrowd == InitCrowd /\ [][NextNMS]_vars

----------------------------------------------------------------------------
(* xyxy2xywh and xywh2xyxy on float32 boxes *)

\* A conversion that takes the top-left corner for the centre.
xyxy2xywhCorner(b) == <<2 * b[1], 2 * b[2], 2 * Rnd(b[3] - b[1]), 2 * Rnd(b[4] - b[2])>>

\* xyxy2xywh; the result is in halves of the unit of b, so that the / 2 of the
\* centre is exact.
xyxy2xywh(b) ==
    <<Rnd(b[1] + b[3]), Rnd(b[2] + b[4]), 2 * Rnd(b[3] - b[1]), 2 * Rnd(b[4] - b[2])>>

\* Coordinates are float32 values of [0, 1] in units of 2^-CoordBits, far from
\* overflow and from the subnormal range: 0, 0.2, 0.3, 0.7 and 2^-26 as
\* float32 holds them, and the multiples 1 / 64, 3 / 64, 0.25, 0.5 and 1.0
\* of 2^-6.
CoordBits == 26
Coords ==
    { 0, 1, 13421773, 20132660, 46976204,
      2^20, 3 * 2^20, 2^24, 2^25, 2^26 }

\* Boxes (x1, y1, x2, y2) with x1 <= x2 and y1 <= y2, and boxes (cx, cy, w, h).
BoxesXyxy == { b \in Coords \X Coords \X Coords \X Coords : b[1] <= b[3] /\ b[2] <= b[4] }
BoxesXywh == Coords \X Coords \X Coords \X Coords

\* y = xyxy2xywh(x): of the argument, or of the box xywh2xyxy returned.
Xyxy2xywhCall ==
    \/ /\ prog = "xyxy2xywh" /\ pc = "call"
       /\ b_mid' = xyxy2xywh(b_in)
       /\ pc' = "back"
       /\ UNCHANGED <<prog, b_in, b_out, varsBT, varsAP, varsNMS, varsLoss, varsDist, varsSeed>>
    \/ /\ prog = "xywh2xyxy" /\ pc = "back"
       /\ b_out' = xyxy2xywh(b_mid)
       /\ pc' = "done"
       /\ UNCHANGED <<prog, b_in, b_mid, varsBT, varsAP, varsNMS, varsLoss, varsDist, varsSeed>>

\* y = xywh2xyxy(x): of the argument, or of the box xyxy2xywh returned.
Xywh2xyxyCall ==
    \/ /\ prog = "xywh2xyxy" /\ pc = "call"
       /\ b_mid' = xywh2xyxy(b_in)
       /\ pc' = "back"
       /\ UNCHANGED <<prog, b_in, b_out, varsBT, varsAP, varsNMS, varsLoss, varsDist, varsSeed>>
    \/ /\ prog = "xyxy2xywh" /\ pc = "back"
       /\ b_out' = xywh2xyxy(b_mid)
       /\ pc' = "done"
       /\ UNCHANGED <<prog, b_in, b_mid, varsBT, varsAP, varsNMS, varsLoss, varsDist, varsSeed>>

InitConv ==
    /\ \/ prog = "xyxy2xywh" /\ b_in \in BoxesXyxy
       \/ prog = "xywh2xyxy" /\ b_in \in BoxesXywh
    /\ pc = "call"
    /\ b_mid = <<>> /\ b_out = <<>>
    /\ IdleBT /\ IdleAP /\ IdleNMS /\ IdleLoss /\ IdleDist /\ IdleSeed

NextConv == Xyxy2xywhCall \/ Xywh2xyxyCall

SpecConv == InitConv /\ [][NextConv]_vars

----------------------------------------------------------------------------
(* bbox_iou, box_iou and wh_iou *)

\* Lengths are in halves of the unit of the coordinates and areas in quarters
\* of its square, so that x - w / 2 is exact.  The unit is a pixel, where the
\* float32 sums and products of the coordinates of IouCoords are exact and
\* 1e-16 vanishes when it is added to anything but zero, or it is the "tiny"
\* 1e-8, whose square is 1e-16.  At both scales the area of a box of positive
\* width and height is a float32 value above zero, far from the underflow
\* and the overflow of the product.
AreaUnit == 4
Scales == {"pixel", "tiny"}

\* The 1e-16 that bbox_iou adds, as an area of the scale.
Eps16(scale) ==
    IF scale = "tiny" THEN Num(AreaUnit) ELSE [n |-> 0, eps |-> TRUE, nan |-> FALSE]

\* The float32 sum a + b.
AddF(a, b) ==
    [n |-> a.n + b.n, eps |-> (a.n + b.n = 0) /\ (a.eps \/ b.eps), nan |-> a.nan \/ b.nan]

\* A denominator is above zero.
Positive(d) == ~d.nan /\ (d.n > 0 \/ (d.n = 0 /\ d.eps))

IouCoords == {0, 2, 4}
IouBoxesXyxy ==
    { b \in IouCoords \X IouCoords \X IouCoords \X IouCoords : b[1] <= b[3] /\ b[2] <= b[4] }
IouBoxesXywh == IouCoords \X IouCoords \X IouCoords \X IouCoords
IouModes == {"IoU", "GIoU", "DIoU", "CIoU"}

\* b1_x1, b1_y1, b1_x2, b1_y2 of bbox_iou, in halves of the unit.
Corners(b, x1y1x2y2) ==
    IF x1y1x2y2 THEN <<2 * b[1], 2 * b[2], 2 * b[3], 2 * b[4]>>
    ELSE <<2 * b[1] - b[3], 2 * b[2] - b[4], 2 * b[1] + b[3], 2 * b[2] + b[4]>>

\* bbox_iou(box1, box2, x1y1x2y2, GIoU, DIoU, CIoU): inter and union, whose
\* quotient is iou, and the denominators of the divisions it performs, in the
\* order it performs them.  The values of GIoU, DIoU and CIoU are left out.
\* 9 stands for math.pi ** 2.  The last denominator, 1 - iou + v + 1e-16, is given by 1 - iou + 1e-16 in
\* units of 1 / union, which has its sign: v is a square, and not a number
\* when w2 / h2 or w1 / h1 is 0 / 0.
BboxIou(box1, box2, x1y1x2y2, mode, scale) ==
    LET b1 == Corners(box1, x1y1x2y2)
        b2 == Corners(box2, x1y1x2y2)
        inter == Inter(b1, b2)
        w1 == b1[3] - b1[1]
        h1 == b1[4] - b1[2]
        w2 == b2[3] - b2[1]
        h2 == b2[4] - b2[2]
        union == AddF(AddF(AddF(Num(w1 * h1), Eps16(scale)), Num(w2 * h2)), Num(-inter))
        cw == Max2(b1[3], b2[3]) - Min2(b1[1], b2[1])
        ch == Max2(b1[4], b2[4]) - Min2(b1[2], b2[2])
        c_area == AddF(Num(cw * ch), Eps16(scale))
        c2 == AddF(Num(cw * cw + ch * ch), Eps16(scale))
        vnan == (w2 = 0 /\ h2 = 0) \/ (w1 = 0 /\ h1 = 0)
        alpha == [n |-> union.n - inter, eps |-> union.n = inter, nan |-> vnan]
    IN [inter |-> inter, union |-> union,
        dens |-> <<union>> \o
                 (CASE mode = "IoU" -> <<>>
                    [] mode = "GIoU" -> <<c_area>>
                    [] mode = "DIoU" -> <<Num(4), Num(4), c2>>
                    [] mode = "CIoU" -> <<Num(4), Num(4), Num(9), Num(h2), Num(h1), alpha, c2>>)]

\* box_iou(box1, box2) for one box each.
BoxIou(box1, box2) ==
    LET b1 == Corners(box1, TRUE)
        b2 == Corners(box2, TRUE)
        inter == Inter(b1, b2)
        union == Num(BoxArea(b1) + BoxArea(b2) - inter)
    IN [inter |-> inter, union |-> union, dens |-> <<union>>]

\* wh_iou(wh1, wh2) for one row each.
WhIou(wh1, wh2) ==
    LET inter == Min2(2 * wh1[1], 2 * wh2[1]) * Min2(2 * wh1[2], 2 * wh2[2])
        union == Num(4 * wh1[1] * wh1[2] + 4 * wh2[1] * wh2[2] - inter)
    IN [inter |-> inter, union |-> union, dens |-> <<union>>]

BboxIouCall ==
    /\ prog = "bbox_iou" /\ pc = "call"
    /\ b_out' = BboxIou(b_in.box1, b_in.box2, b_in.x1y1x2y2, b_in.mode, b_in.scale)
    /\ pc' = "done"
    /\ UNCHANGED <<prog, b_in, b_mid, varsBT, varsAP, varsNMS, varsLoss, varsDist, varsSeed>>

BoxIouCall ==
    /\ prog = "box_iou" /\ pc = "call"
    /\ b_out' = BoxIou(b_in.box1, b_in.box2)
    /\ pc' = "done"
    /\ UNCHANGED <<prog, b_in, b_mid, varsBT, varsAP, varsNMS, varsLoss, varsDist, varsSeed>>

WhIouCall ==
    /\ prog = "wh_iou" /\ pc = "call"
    /\ b_out' = WhIou(b_in.box1, b_in.box2)
    /\ pc' = "done"
    /\ UNCHANGED <<prog, b_in, b_mid, varsBT, varsAP, varsNMS, varsLoss, varsDist, varsSeed>>

\* The arguments: two boxes in one format, or two (w, h) rows.
IouArgs(boxes, formats, modes) ==
    [box1 : boxes, box2 : boxes, x1y1x2y2 : formats, mode : modes, scale : Scales]

InitIoU ==
    /\ \/ prog = "bbox_iou" /\ b_in \in IouArgs(IouBoxesXyxy, {TRUE}, IouModes)
       \/ prog = "bbox_iou" /\ b_in \in IouArgs(IouBoxesXywh, {FALSE}, IouModes)
       \/ prog = "box_iou" /\ b_in \in IouArgs(IouBoxesXyxy, {TRUE}, {"IoU"})
       \/ prog = "wh_iou" /\ b_in \in IouArgs(IouCoords \X IouCoords, {TRUE}, {"IoU"})
    /\ pc = "call"
    /\ b_mid = <<>> /\ b_out = <<>>
    /\ IdleBT /\ IdleAP /\ IdleNMS /\ IdleLoss /\ IdleDist /\ IdleSeed

NextIoU == BboxIouCall \/ BoxIouCall \/ WhIouCall

SpecIoU == InitIoU /\ [][NextIoU]_vars

----------------------------------------------------------------------------
(* torch_distributed_zero_first *)

\* The most processes of a group.
NProcs == 3

\* local_rank not in [-1, 0] with a guard that never holds.
WaitsNever(rank) == FALSE

\* local_rank not in [-1, 0]
WaitsFirst(rank) == rank \notin {-1, 0}

\* The local ranks of a run: one process outside of distributed training,
\* with local_rank -1, or a group whose processes are numbered from 0 on each
\* of its nodes.
RankLists ==
    { <<-1>> } \cup
    UNION { { r \in [1..n -> 0..(n - 1)] : \A k \in 1..n : r[k] = 0 \/ r[k] - 1 \in { r[j] : j \in 1..n } }
            : n \in 1..NProcs }

\* Process p comes to the with statement: the code up to the yield, or up to
\* the call of barrier.
ZeroFirstEnter(p) ==
    /\ prog = "torch_distributed_zero_first"
    /\ at[p] = "enter"
    /\ IF WaitsFirst(local_rank[p])
       THEN at' = [at EXCEPT ![p] = "barrier_before"] /\ calls' = [calls EXCEPT ![p] = @ + 1]
       ELSE at' = [at EXCEPT ![p] = "body"] /\ UNCHANGED calls
    /\ UNCHANGED <<prog, pc, local_rank, varsBT, varsAP, varsNMS, varsLoss, varsBox, varsSeed>>

\* torch.distributed.barrier() returns in process p once every process of the
\* group has made the call.
BarrierReturn(p) ==
    /\ prog = "torch_distributed_zero_first"
    /\ at[p] \in {"barrier_before", "barrier_after"}
    /\ \A q \in 1..Len(calls) : calls[q] >= calls[p]
    /\ at' = [at EXCEPT ![p] = IF at[p] = "barrier_before" THEN "body" ELSE "exit"]
    /\ UNCHANGED <<prog, pc, local_rank, calls, varsBT, varsAP, varsNMS, varsLoss, varsBox, varsSeed>>

\* The body of the with statement comes to its end in process p.
BodyEnds(p) ==
    /\ prog = "torch_distributed_zero_first"
    /\ at[p] = "body"
    /\ at' = [at EXCEPT ![p] = "yielded"]
    /\ UNCHANGED <<prog, pc, local_rank, calls, varsBT, varsAP, varsNMS, varsLoss, varsBox, varsSeed>>

\* The body raises in process p: the exception is thrown at the yield and the
\* code after it does not run.
BodyRaises(p) ==
    /\ prog = "torch_distributed_zero_first"
    /\ at[p] = "body"
    /\ at' = [at EXCEPT ![p] = "raised"]
    /\ UNCHANGED <<prog, pc, local_rank, calls, varsBT, varsAP, varsNMS, varsLoss, varsBox, varsSeed>>

\* The code after the yield, up to the call of barrier.
ZeroFirstLeave(p) ==
    /\ prog = "torch_distributed_zero_first"
    /\ at[p] = "yielded"
    /\ IF local_rank[p] = 0
       THEN at' = [at EXCEPT ![p] = "barrier_after"] /\ calls' = [calls EXCEPT ![p] = @ + 1]
       ELSE at' = [at EXCEPT ![p] = "exit"] /\ UNCHANGED calls
    /\ UNCHANGED <<prog, pc, local_rank, varsBT, varsAP, varsNMS, varsLoss, varsBox, varsSeed>>

InitDist ==
    /\ prog = "torch_distributed_zero_first" /\ pc = "with"
    /\ local_rank \in RankLists
    /\ at = [p \in 1..Len(local_rank) |-> "enter"]
    /\ calls = [p \in 1..Len(local_rank) |-> 0]
    /\ IdleBT /\ IdleAP /\ IdleNMS /\ IdleLoss /\ IdleBox /\ IdleSeed

NextDist ==
    \E p \in 1..Len(local_rank) :
        \/ ZeroFirstEnter(p)
        \/ BarrierReturn(p)
        \/ BodyEnds(p)
        \/ BodyRaises(p)
        \/ ZeroFirstLeave(p)

SpecDist == InitDist /\ [][NextDist]_vars

\* The steps of process p: every process is a program of its own that runs on
\* when it can, its body comes to an end or raises, and a call of barrier
\* returns once the group has made it.
ZeroFirstRuns(p) ==
    /\ p <= Len(local_rank)
    /\ \/ ZeroFirstEnter(p)
       \/ BarrierReturn(p)
       \/ BodyEnds(p)
       \/ BodyRaises(p)
       \/ ZeroFirstLeave(p)

SpecDistFair ==
    InitDist /\ [][NextDist]_vars /\ \A p \in 1..NProcs : WF_vars(ZeroFirstRuns(p))

----------------------------------------------------------------------------
(* init_seeds *)

\* The frames of init_seeds that the interpreter's recursion limit leaves room
\* for: the frame after the last of them would be that of random.seed.
MaxFrames == 12

\* The largest seed of a call.
MaxSeed == 3

\* The seed argument of a call.
Seeds == 0..MaxSeed

\* from utils.torch_utils import init_seeds, is_parallel: the module binds the
\* name init_seeds to the helper of utils.torch_utils.
ImportInitSeeds ==
    /\ prog = "init_seeds" /\ pc = "import"
    /\ binding' = "utils.torch_utils.init_seeds"
    /\ pc' = "def"
    /\ UNCHANGED <<prog, frames, seeded, outcome, varsBT, varsAP, varsNMS, varsLoss, varsBox, varsDist>>

\* def init_seeds(seed=0): the def statement binds the same name of the module
\* to the function it defines.
DefInitSeeds ==
    /\ prog = "init_seeds" /\ pc = "def"
    /\ binding' = "utils.general.init_seeds"
    /\ pc' = "loaded"
    /\ UNCHANGED <<prog, frames, seeded, outcome, varsBT, varsAP, varsNMS, varsLoss, varsBox, varsDist>>

\* A caller calls init_seeds(seed) of the loaded module.
InitSeedsCall ==
    /\ prog = "init_seeds" /\ pc = "loaded"
    /\ \E seed \in Seeds : frames' = <<[seed |-> seed, line |-> 49]>>
    /\ pc' = "called"
    /\ UNCHANGED <<prog, binding, seeded, outcome, varsBT, varsAP, varsNMS, varsLoss, varsBox, varsDist>>

\* The running frame is at the given line and nothing has been raised.
Running(line) ==
    /\ prog = "init_seeds" /\ pc = "called" /\ outcome = "none"
    /\ frames # <<>> /\ frames[Len(frames)].line = line

\* random.seed(seed): a function of random.py that runs in a frame of its own.
\* In the deepest frame of init_seeds that the stack has room for the call
\* raises RecursionError before anything is seeded.
RandomSeed ==
    /\ Running(49)
    /\ IF Len(frames) < MaxFrames
       THEN /\ seeded' = [seeded EXCEPT !.random = @ + 1]
            /\ frames' = [frames EXCEPT ![Len(frames)].line = 50]
            /\ UNCHANGED outcome
       ELSE /\ outcome' = "RecursionError"
            /\ UNCHANGED <<seeded, frames>>
    /\ UNCHANGED <<prog, pc, binding, varsBT, varsAP, varsNMS, varsLoss, varsBox, varsDist>>

\* np.random.seed(seed)
NumpySeed ==
    /\ Running(50)
    /\ seeded' = [seeded EXCEPT !.numpy = @ + 1]
    /\ frames' = [frames EXCEPT ![Len(frames)].line = 51]
    /\ UNCHANGED <<prog, pc, binding, outcome, varsBT, varsAP, varsNMS, varsLoss, varsBox, varsDist>>

\* init_seeds(seed=seed): the name is looked up in the module when the call is
\* made.  The helper of utils.torch_utils seeds torch and returns, and the frame
\* returns after it; the function of general.py gets a new frame, for which
\* the stack has room where it had room for the frame of random.seed.
InitSeedsDelegate ==
    /\ Running(51)
    /\ IF binding = "utils.torch_utils.init_seeds"
       THEN /\ seeded' = [seeded EXCEPT !.torch = @ + 1]
            /\ frames' = SubSeq(frames, 1, Len(frames) - 1)
            /\ outcome' = IF Len(frames) = 1 THEN "returned" ELSE outcome
       ELSE /\ frames' = Append(frames, [seed |-> frames[Len(frames)].seed, line |-> 49])
            /\ UNCHANGED <<seeded, outcome>>
    /\ UNCHANGED <<prog, pc, binding, varsBT, varsAP, varsNMS, varsLoss, varsBox, varsDist>>

\* No frame handles the exception: it leaves the running frame for its caller.
InitSeedsUnwind ==
    /\ prog = "init_seeds" /\ pc = "called"
    /\ outcome = "RecursionError" /\ frames # <<>>
    /\ frames' = SubSeq(frames, 1, Len(frames) - 1)
    /\ UNCHANGED <<prog, pc, binding, seeded, outcome, varsBT, varsAP, varsNMS, varsLoss, varsBox, varsDist>>

InitSeeds ==
    /\ prog = "init_seeds" /\ pc = "import"
    /\ IdleSeed
    /\ IdleBT /\ IdleAP /\ IdleNMS /\ IdleLoss /\ IdleBox /\ IdleDist

NextSeeds ==
    \/ ImportInitSeeds
    \/ DefInitSeeds
    \/ InitSeedsCall
    \/ RandomSeed
    \/ NumpySeed
    \/ InitSeedsDelegate
    \/ InitSeedsUnwind

SpecSeeds == InitSeeds /\ [][NextSeeds]_vars

----------------------------------------------------------------------------
(* build_targets: the neighbour cells of one float32 coordinate *)

\* One cell is 2^CellBits units, the spacing of the float32 values from 8 to 16.
CellBits == 20
One == 2^CellBits

\* gain[2]: the grid widths of a 640 pixel image at strides 32 and 8.
GridWidths == {20, 80}

\* gxy of one axis: cells from either edge and from the middle of the grid, with
\* fractional parts at and around 0, 0.5 and 1, as far as float32 holds them.
FracParts == {0, 1, One \div 4, One \div 2 - 1, One \div 2, One \div 2 + 1, One \div 2 + 4,
              One \div 2 + 5, One \div 2 + 8, One \div 2 + 16, 3 * (One \div 4), One - 8}
GridCoords(width) ==
    { v \in { c * One + f : c \in {0, 1, 2, 9, width - 2, width - 1}, f \in FracParts } :
        Rnd(v) = v }

\* (v % 1. < g) & (v > 1.) for a float32 v >= 0.
NearLowF(v) == gDen * (v % One) < One /\ v > One

\* The cells gij that the rows of one candidate hold on one axis: its own, and
\* those of (gxy - offsets).long() for the directions j and l (k and m on the
\* other axis), with gxi = gain - gxy rounded to float32.
AxisCells(gxy, width) ==
    LET gxi == Rnd(width * One - gxy)
        j == NearLowF(gxy)
        l == NearLowF(gxi)
    IN [j |-> j, l |-> l,
        cells |-> {gxy \div One}
                    \cup (IF j THEN {Rnd(gxy - One \div gDen) \div One} ELSE {})
                    \cup (IF l THEN {Rnd(gxy + One \div gDen) \div One} ELSE {})]

NeighbourSelect ==
    /\ prog = "build_targets" /\ pc = "neighbours"
    /\ b_out' = AxisCells(b_in.gxy, b_in.width)
    /\ pc' = "assigned"
    /\ UNCHANGED <<prog, b_in, b_mid, varsBT, varsAP, varsNMS, varsLoss, varsDist, varsSeed>>

InitNear ==
    /\ prog = "build_targets" /\ pc = "neighbours"
    /\ \E width \in GridWidths : b_in \in [gxy : GridCoords(width), width : {width}]
    /\ b_mid = <<>> /\ b_out = <<>>
    /\ IdleBT /\ IdleAP /\ IdleNMS /\ IdleLoss /\ IdleDist /\ IdleSeed

NextNear == NeighbourSelect

SpecNear == InitNear /\ [][NextNear]_vars

----------------------------------------------------------------------------
(* Properties of build_targets. *)

\* The scales the loop has finished.
DoneScales == 1..Len(indices)

\* The assignment rows of scale s that come from ground-truth row k and anchor a.
RowsOf(s, k, a) ==
    { m \in 1..Len(origin[s]) : origin[s][m][1] = k /\ origin[s][m][2] = a }

\* max(gw / aw, aw / gw, gh / ah, ah / gh) < anchor_t, on exact integers.
Fits(gw, gh, aw, ah) ==
    /\ gw < anchor_t * aw /\ aw < anchor_t * gw
    /\ gh < anchor_t * ah /\ ah < anchor_t * gh

\* Ground-truth row k fits anchor a (0-based) of scale s.
GtFits(s, k, a) ==
    Fits(targets[k].w * GridW[s], targets[k].h * GridH[s],
         Anchors[s][a + 1][1], Anchors[s][a + 1][2])

\* C1: every assignment's anchor is within anchor_t of the ground-truth box in
\* width and in height, and a ground truth that no anchor of a scale fits has
\* no assignment at that scale.
C1_ShapeFilter ==
    \A s \in DoneScales :
        /\ \A m \in 1..Len(anch[s]) :
                Fits(ttar[s][m][3], ttar[s][m][4], anch[s][m][1], anch[s][m][2])
        /\ \A k \in 1..Len(targets) :
                (\A a \in 0..(na - 1) : ~GtFits(s, k, a))
                    => \A a \in 0..(na - 1) : RowsOf(s, k, a) = {}

\* A scale holds assignments of one ground truth while another ground truth,
\* whose width is exactly anchor_t times below an anchor's, got none.
C1_Witness ==
    \E s \in DoneScales : \E k1, k2 \in 1..Len(targets) :
        /\ \E a \in 0..(na - 1) : RowsOf(s, k1, a) # {}
        /\ \A a \in 0..(na - 1) : RowsOf(s, k2, a) = {}
        /\ \E a \in 0..(na - 1) : targets[k2].w * GridW[s] * anchor_t = Anchors[s][a + 1][1]

\* C2: a surviving (ground truth, anchor) candidate gets at most 3 assignments,
\* whatever the position of its centre.
C2_AtMostThree ==
    \A s \in DoneScales : \A k \in 1..Len(targets) : \A a \in 0..(na - 1) :
        Cardinality(RowsOf(s, k, a)) <= 3

\* C3: every assigned cell is the cell of the box centre or one of its four
\* cardinal neighbours, never a diagonal one.
C3_CardinalOnly ==
    \A s \in DoneScales : \A m \in 1..Len(indices[s]) :
        LET gi0 == ttar[s][m][1] \div Res
            gj0 == ttar[s][m][2] \div Res
            di == indices[s][m][4] - gi0
            dj == indices[s][m][3] - gj0
        IN /\ di \in {-1, 0, 1}
           /\ dj \in {-1, 0, 1}
           /\ di = 0 \/ dj = 0

\* One candidate holds the cell of its centre, a neighbour in x and a neighbour in y.
C3_Witness ==
    \E s \in DoneScales : \E m1, m2 \in 1..Len(indices[s]) :
        /\ origin[s][m1][1] = origin[s][m2][1]
        /\ origin[s][m1][2] = origin[s][m2][2]
        /\ indices[s][m1][4] # ttar[s][m1][1] \div Res
        /\ indices[s][m2][3] # ttar[s][m2][2] \div Res

\* C4: a ground truth whose centre has fractional part exactly 0.5 on both
\* axes gets exactly 1 assignment per anchor that passes the shape filter.
C4_CellCentre ==
    \A s \in DoneScales : \A k \in 1..Len(targets) :
        (/\ 2 * ((targets[k].x * GridW[s]) % Res) = Res
         /\ 2 * ((targets[k].y * GridH[s]) % Res) = Res)
            => \A a \in 0..(na - 1) :
                    Cardinality(RowsOf(s, k, a)) = IF GtFits(s, k, a) THEN 1 ELSE 0

\* A ground truth at a cell centre got its one assignment.
C4_Witness ==
    \E s \in DoneScales : \E k \in 1..Len(targets) : \E a \in 0..(na - 1) :
        /\ 2 * ((targets[k].x * GridW[s]) % Res) = Res
        /\ 2 * ((targets[k].y * GridH[s]) % Res) = Res
        /\ Cardinality(RowsOf(s, k, a)) = 1

\* C5: with no ground truth in the batch build_targets returns, for every
\* scale, classes, boxes, indices, anchors and absolute targets of zero rows.
C5_NoTargets ==
    (Len(targets) = 0)
        => /\ \A s \in DoneScales :
                /\ tcls[s] = <<>> /\ tbox[s] = <<>> /\ indices[s] = <<>>
                /\ anch[s] = <<>> /\ ttar[s] = <<>>
           /\ pc = "done" =>
                /\ Len(tcls) = nl /\ Len(tbox) = nl /\ Len(indices) = nl
                /\ Len(anch) = nl /\ Len(ttar) = nl
           /\ pc = "loop" => ENABLED NextBT

\* build_targets has returned for a batch without ground truth.
C5_Witness == prog = "build_targets" /\ Len(targets) = 0 /\ pc = "done"

\* The neighbour tests that grid coordinate v of a grid of size cells passes:
\* the one of the low side on v and the one of the high side on size - v.
Qualifying(v, size) ==
    (IF 2 * (v % Res) < Res /\ v > Res THEN 1 ELSE 0)
        + (IF 2 * ((size * Res - v) % Res) < Res /\ size * Res - v > Res THEN 1 ELSE 0)

\* The assignments that ground-truth row k gets at scale s for anchor a: none
\* when the anchor does not fit, else 1 and 1 per neighbour test passed.
Expected(s, k, a) ==
    IF GtFits(s, k, a)
    THEN 1 + Qualifying(targets[k].x * GridW[s], GridW[s])
           + Qualifying(targets[k].y * GridH[s], GridH[s])
    ELSE 0

\* C24: at every scale each (ground truth, anchor) pair that passes the shape
\* filter has 1 assignment and 1 more per neighbour test it passes, whether or
\* not another ground truth holds the same slot, and no other assignment
\* exists: the count is the sum over these pairs, worked out from the grid and
\* the anchors of the scale alone.
C24_NoDedup ==
    \A s \in DoneScales :
        /\ \A k \in 1..Len(targets) : \A a \in 0..(na - 1) :
                Cardinality(RowsOf(s, k, a)) = Expected(s, k, a)
        /\ Len(indices[s])
              = SeqSum([q \in 1..(na * Len(targets)) |->
                            Expected(s, ((q - 1) % Len(targets)) + 1, (q - 1) \div Len(targets))])

\* Two ground truths hold the same slot of a scale, each with its own assignment.
C24_Witness ==
    \E s \in DoneScales : \E m1, m2 \in 1..Len(indices[s]) :
        /\ origin[s][m1][1] # origin[s][m2][1]
        /\ indices[s][m1] = indices[s][m2]

\* C25: every index tuple of every scale is inside the grid of the scale:
\* 0 <= gi < grid width and 0 <= gj < grid height.
C25_InGrid ==
    \A s \in DoneScales : \A m \in 1..Len(indices[s]) :
        /\ 0 <= indices[s][m][4] /\ indices[s][m][4] < GridW[s]
        /\ 0 <= indices[s][m][3] /\ indices[s][m][3] < GridH[s]

\* C26: the regression offsets gxy - gij of every assignment are strictly
\* between -0.5 and 1.5 on both axes.
C26_OffsetRange ==
    \A s \in DoneScales : \A m \in 1..Len(tbox[s]) : \A c \in 1..2 :
        -Res < 2 * tbox[s][m][c] /\ 2 * tbox[s][m][c] < 3 * Res

\* One scale holds an assignment with an offset of 1 or more, one with an
\* offset below 0, and one to the cell of an integer coordinate from the side
\* of direction l.
C26_Witness ==
    \E s \in DoneScales : \E m1, m2, m3 \in 1..Len(tbox[s]) :
        /\ tbox[s][m1][1] >= Res
        /\ tbox[s][m2][1] < 0
        /\ origin[s][m3][3] = 4 /\ tbox[s][m3][1] = 0

\* Row m of scale s is the same in the five entries: the cell and the offset
\* add up to the absolute centre, the sizes agree, the anchor size is that of
\* the anchor index, and class, image and box are those of one ground truth.
SameAssignment(s, m) ==
    LET gt == targets[origin[s][m][1]]
    IN /\ tbox[s][m][1] + indices[s][m][4] * Res = ttar[s][m][1]
       /\ tbox[s][m][2] + indices[s][m][3] * Res = ttar[s][m][2]
       /\ tbox[s][m][3] = ttar[s][m][3] /\ tbox[s][m][4] = ttar[s][m][4]
       /\ anch[s][m] = Anchors[s][indices[s][m][2] + 1]
       /\ tcls[s][m] = gt.cls /\ indices[s][m][1] = gt.img
       /\ ttar[s][m] = <<gt.x * GridW[s], gt.y * GridH[s], gt.w * GridW[s], gt.h * GridH[s]>>

\* C27: every assignment of a candidate has the image index, class, anchor
\* index, anchor size and absolute target of the candidate's origin-cell
\* assignment, and the five entries of a scale have the same number of rows,
\* row m of each describing the same assignment.
C27_OnlyTheCell ==
    \A s \in DoneScales :
        /\ Len(tcls[s]) = Len(indices[s]) /\ Len(tbox[s]) = Len(indices[s])
        /\ Len(anch[s]) = Len(indices[s]) /\ Len(ttar[s]) = Len(indices[s])
        /\ \A m \in 1..Len(indices[s]) :
              /\ SameAssignment(s, m)
              /\ \E m0 \in 1..Len(indices[s]) :
                    /\ origin[s][m0] = <<origin[s][m][1], origin[s][m][2], 1>>
                    /\ indices[s][m0][1] = indices[s][m][1]
                    /\ indices[s][m0][2] = indices[s][m][2]
                    /\ tcls[s][m0] = tcls[s][m] /\ anch[s][m0] = anch[s][m]
                    /\ ttar[s][m0] = ttar[s][m]

\* A scale holds a neighbour assignment in another cell than its candidate's
\* origin-cell assignment, and assignments of two anchors.
C27_Witness ==
    \E s \in DoneScales : \E m, m0, m1 \in 1..Len(indices[s]) :
        /\ origin[s][m][3] # 1 /\ origin[s][m0][3] = 1
        /\ origin[s][m0][1] = origin[s][m][1] /\ origin[s][m0][2] = origin[s][m][2]
        /\ <<indices[s][m0][3], indices[s][m0][4]>> # <<indices[s][m][3], indices[s][m][4]>>
        /\ indices[s][m1][2] # indices[s][m][2]

----------------------------------------------------------------------------
(* Properties of compute_ap. *)

\* The curve that compute_ap integrates is in mrec and mpre.
Enveloped == prog = "compute_ap" /\ pc \in {"integrate", "done"}

\* The value of ap that stands for 1.0, and for 1e-6.
ApOne == 2 * RecScale * PrecOne
ApTol == ApOne \div 1000000

\* C8: a precision curve equal to 1 everywhere with recall rising to 1 gives
\* AP = 1.0 within 1e-6.
C8_PerfectAP ==
    (/\ prog = "compute_ap" /\ pc = "done"
     /\ \A n \in 1..Len(precision) : precision[n] = PrecOne
     /\ recall[Len(recall)] = RecScale)
        => (ap - ApOne <= ApTol /\ ApOne - ap <= ApTol)

\* C9: in the integrated curve precision can only decrease when moving from a
\* higher-recall point to a lower-recall point.
C9_DecreasesTowardLowRecall ==
    Enveloped =>
        \A a, b \in 1..Len(mrec) : mrec[a] > mrec[b] => mpre[b] <= mpre[a]

\* C9 as amended: in the integrated curve precision never decreases when moving
\* from a higher-recall point to a lower-recall point, nor from a later point
\* of the curve to an earlier one.
C9_Envelope ==
    Enveloped =>
        /\ \A a, b \in 1..Len(mrec) : mrec[a] > mrec[b] => mpre[b] >= mpre[a]
        /\ \A a, b \in 1..Len(mpre) : a > b => mpre[b] >= mpre[a]

\* The envelope raised a point: the input precision rises along the curve, and
\* the processed curve is strictly higher at a lower recall.
C9_Witness ==
    /\ Enveloped
    /\ \E n \in 1..(Len(precision) - 1) : precision[n] < precision[n + 1]
    /\ \E a, b \in 1..Len(mrec) : mrec[a] > mrec[b] /\ mpre[b] > mpre[a]

----------------------------------------------------------------------------
(* Properties of non_max_suppression. *)

\* The loop has taken an image, which is in x, and has not returned.
AtImage == prog = "non_max_suppression" /\ xi >= 1 /\ pc \in {"loop", "return"}

\* The image in x has two candidate rows, of the same box and class.
TwoIdentical ==
    LET det == CandidateRows(x, classes)
    IN Len(det) = 2 /\ det[1].box = det[2].box /\ det[1].cls = det[2].cls

\* C6: an image with two identical boxes of the same class above conf_thres
\* gives exactly one detection at an IoU threshold of 0.5.
C6_TwoIdenticalBoxes ==
    (AtImage /\ TwoIdentical /\ iou_thres = <<1, 2>>)
        => (~output[xi].none /\ Len(output[xi].rows) = 1)

\* Two identical boxes were suppressed to one, with the merge on.
C6_Witness ==
    /\ AtImage /\ TwoIdentical /\ iou_thres = <<1, 2>> /\ merge
    /\ Len(output[xi].rows) = 1

\* C7: with an allow-list given, no detection of a class that is not on the
\* list is in any output, whatever the list.
C7_AllowList ==
    (prog = "non_max_suppression" /\ classes.given)
        => \A k \in 1..Len(output) : \A q \in 1..Len(output[k].rows) :
                \E m \in 1..Len(classes.list) : classes.list[m] = output[k].rows[q].cls

\* C10: once the elapsed time is above time_limit after an image has been
\* handled, no further image is taken and the outputs stay as they are.
C10_TimeBudget ==
    [][(prog = "non_max_suppression" /\ xi >= 1 /\ elapsed > time_limit)
            => (xi' = xi /\ output' = output)]_vars

\* The detections matrix of the image in x.
Cand == CandidateRows(x, classes)

\* Row r holds the box of the detections matrix row d, whatever it was divided by.
SameBox(r, d) ==
    \A c \in 1..4 : r.box[c] % r.den = 0 /\ r.box[c] \div r.den = d.box[c]

\* The rows out are the rows keep of the detections matrix det, boxes unchanged.
PlainResult(out, det, keep) ==
    /\ Len(out) = Len(keep)
    /\ \A q \in 1..Len(keep) :
            /\ out[q].src = det[keep[q]].src /\ out[q].cls = det[keep[q]].cls
            /\ out[q].conf = det[keep[q]].conf
            /\ SameBox(out[q], det[keep[q]])

\* C11: when the merge block raises for an image, the output of that image is
\* the plain suppression result with the original boxes, and the loop goes on
\* to the remaining images.
C11_MergeFallback ==
    (AtImage /\ raised # "none")
        => /\ \E keep \in Keeps(Cand, Boxes(Cand)) : PlainResult(output[xi].rows, Cand, keep)
           /\ (xi < bs /\ elapsed <= time_limit) => pc = "loop"

\* C16: no image's detections have more than max_det rows.
C16_MaxDet ==
    prog = "non_max_suppression"
        => \A k \in 1..Len(output) : Len(output[k].rows) <= max_det

\* More than max_det boxes of an image were kept apart by the nms, the merge
\* is on, and the image's detections have max_det rows.
C16_Witness ==
    /\ AtImage /\ merge /\ nb > max_det
    /\ Len(Nms(Boxes(Cand), CHOOSE o \in Orders([m \in 1..Len(Cand) |-> Cand[m].conf]) : TRUE,
               iou_thres)) > max_det
    /\ Len(output[xi].rows) = max_det

\* Row m of the detections matrix det is among the rows out.
Detected(out, det, m) == \E q \in 1..Len(out) : out[q] = det[m]

\* C17: in non-agnostic mode a candidate is missing from the detections only
\* if a detection of its own class overlaps it above iou_thres.
C17_ClassScoped ==
    (AtImage /\ ~agnostic /\ ~merge /\ ~output[xi].none)
        => \A m \in 1..Len(Cand) :
               Detected(output[xi].rows, Cand, m)
                   \/ \E q \in 1..Len(output[xi].rows) :
                          /\ output[xi].rows[q].cls = Cand[m].cls
                          /\ IouAbove(output[xi].rows[q].box, Cand[m].box, iou_thres)

\* Two candidates are compared in the same suppression scope.
SameScope(r1, r2) == agnostic \/ r1.cls = r2.cls

\* C20: with the merge off no two detections of the same scope overlap above
\* iou_thres, and a candidate of the highest confidence of its scope is among
\* the detections.
C20_Greedy ==
    (AtImage /\ ~merge /\ ~output[xi].none)
        => LET out == output[xi].rows
           IN /\ \A q1, q2 \in 1..Len(out) :
                    (q1 # q2 /\ SameScope(out[q1], out[q2]))
                        => ~IouAbove(out[q1].box, out[q2].box, iou_thres)
              /\ \A m \in 1..Len(Cand) :
                    \E q \in 1..Len(out) :
                        /\ SameScope(out[q], Cand[m])
                        /\ out[q].conf >= Cand[m].conf
              /\ \A m \in 1..Len(Cand) :
                    (\A k \in 1..Len(Cand) :
                        (k # m /\ SameScope(Cand[k], Cand[m])) => Cand[k].conf < Cand[m].conf)
                        => Detected(out, Cand, m)

\* The row of the detections matrix det that the output row r comes from.
Origin(det, r) == CHOOSE m \in 1..Len(det) : det[m].src = r.src /\ det[m].cls = r.cls

\* The candidates of det, row m included, whose box overlaps that of row m above thr.
Overlapping(det, m, thr) == { k \in 1..Len(det) : IouAbove(det[m].box, det[k].box, thr) }

\* C21: with the merge on and more than 1 and fewer than 3000 candidates, and
\* no failure of the merge block, every detection is overlapped above
\* iou_thres by more than one candidate, itself included; with the merge off
\* or with 1 candidate the detections are those of the suppression.
C21_Redundancy ==
    (AtImage /\ raised = "none" /\ ~output[xi].none)
        => LET out == output[xi].rows
           IN IF merge /\ 1 < Len(Cand) /\ Len(Cand) < MergeLimit
              THEN \A q \in 1..Len(out) :
                        Cardinality(Overlapping(Cand, Origin(Cand, out[q]), iou_thres)) > 1
              ELSE \E keep \in Keeps(Cand, Boxes(Cand)) : PlainResult(out, Cand, keep)

\* The boxes of the image in x whose objectness is above conf_thres.
Confident == ByObjectness(x)

\* The detections matrix of the image in x, before the class filter.
Matrix == CandidateRows(x, [given |-> FALSE, list |-> <<>>])

\* The rows of Matrix for class c (1-based) of the box Confident[k].
PairRows(k, c) == { m \in 1..Len(Matrix) : Matrix[m].src = k /\ Matrix[m].cls = c - 1 }

\* C22: the boxes that candidates are built from are those of an objectness
\* above conf_thres; with more than one class there is exactly one candidate
\* row per box and class whose objectness times class score is above
\* conf_thres and none for any other pair, and with one class there is at most
\* one row per box, for its best class.  A row holds the corners of its box,
\* the product and the class.
C22_Candidates ==
    AtImage =>
        LET boxes == Confident
            rows == Matrix
            pair(k, c) == { m \in 1..Len(rows) : rows[m].src = k /\ rows[m].cls = c - 1 }
        IN /\ \A k \in 1..Len(x) :
                (x[k].obj * conf_thres[2] > conf_thres[1] * ScoreDen)
                    <=> \E j \in 1..Len(boxes) : boxes[j] = x[k]
           /\ \A m \in 1..Len(rows) :
                /\ rows[m].src \in 1..Len(boxes)
                /\ rows[m].cls \in 0..(nc - 1)
                /\ rows[m].conf = boxes[rows[m].src].obj * boxes[rows[m].src].cls[rows[m].cls + 1]
                /\ rows[m].box = xywh2xyxy(boxes[rows[m].src].box)
           /\ \A k \in 1..Len(boxes) : \A c \in 1..nc :
                IF nc > 1
                THEN Cardinality(pair(k, c))
                        = IF boxes[k].obj * boxes[k].cls[c] * conf_thres[2]
                                > conf_thres[1] * ScoreDen * ScoreDen
                          THEN 1 ELSE 0
                ELSE /\ Cardinality(UNION { pair(k, d) : d \in 1..nc }) <= 1
                     /\ \A m \in pair(k, c) :
                            \A d \in 1..nc : boxes[k].obj * boxes[k].cls[d] <= rows[m].conf

\* One box of the image gave two candidate rows, and another box gave a row
\* for one of its classes only, the product of the other being equal to
\* conf_thres.
C22_Witness ==
    /\ AtImage /\ nc > 1
    /\ \E k \in 1..Len(Confident) : PairRows(k, 1) # {} /\ PairRows(k, 2) # {}
    /\ \E k \in 1..Len(Confident) :
            /\ PairRows(k, 1) = {} /\ PairRows(k, 2) # {}
            /\ Confident[k].obj * Confident[k].cls[1] * conf_thres[2]
                    = conf_thres[1] * ScoreDen * ScoreDen

\* C28: every row of every output has a confidence above conf_thres, and the
\* rows of the image in x come from a box of an objectness above conf_thres,
\* whose objectness times the score of the row's class is the confidence.
C28_AboveThreshold ==
    prog = "non_max_suppression" =>
        /\ \A k \in 1..Len(output) : \A q \in 1..Len(output[k].rows) :
                output[k].rows[q].conf * conf_thres[2] > conf_thres[1] * ScoreDen * ScoreDen
        /\ AtImage =>
              \A q \in 1..Len(output[xi].rows) :
                  LET r == output[xi].rows[q]
                      b == Confident[r.src]
                  IN /\ b.obj * conf_thres[2] > conf_thres[1] * ScoreDen
                     /\ r.conf = b.obj * b.cls[r.cls + 1]

\* An image gave a detection with the merge on, while a box of it is left out
\* with an objectness equal to conf_thres and another with a product equal to it.
C28_Witness ==
    /\ AtImage /\ merge /\ raised = "none" /\ Len(output[xi].rows) > 0
    /\ \E k \in 1..Len(x) : x[k].obj * conf_thres[2] = conf_thres[1] * ScoreDen
    /\ \E k \in 1..Len(x) : \E c \in 1..nc :
            x[k].obj * x[k].cls[c] * conf_thres[2] = conf_thres[1] * ScoreDen * ScoreDen

----------------------------------------------------------------------------
(* Properties of compute_loss. *)

\* C12: with a single class the classification loss is zero throughout, the
\* returned classification item is zero and the returned total is the sum of
\* the box and objectness losses alone, a number or the nan of these two.
C12_SingleClass ==
    (prog = "compute_loss" /\ model_nc = 1)
        => /\ lcls = Frac(0, 1)
           /\ pc = "done" =>
                /\ ret.items[3] = Frac(0, 1)
                /\ ret.items[4] = Plus(ret.items[1], ret.items[2])
                /\ ret.total = Times(Plus(ret.items[1], ret.items[2]), BatchImages, 1)

\* compute_loss returned a positive box loss for a single-class model with
\* assignments on every layer.
C12_Witness ==
    /\ prog = "compute_loss" /\ model_nc = 1 /\ pc = "done"
    /\ \A s \in 1..nl : Len(indices[s]) > 0
    /\ ret.items[1].n > 0

\* C23: on every scale, when its layer has been handled, a slot that no
\* assignment points to has the target 0, and a slot that some assignment
\* points to has the target (1 - gr) + gr * max(giou, 0) of one of the
\* assignments that point to it, which lies in [1 - gr, 1].
C23_ObjTargets ==
    (prog = "compute_loss" /\ li > 1) =>
        \A slot \in Slots(li - 1) :
            IF Pointing(li - 1, slot) = {}
            THEN tobj[slot] = Num(0)
            ELSE /\ \E m \in Pointing(li - 1, slot) :
                        /\ ~giou[m].nan
                        /\ tobj[slot] = Num(2 * (2 - gr) + gr * Max2(giou[m].n, 0))
                 /\ ~tobj[slot].nan
                 /\ 2 * (2 - gr) <= tobj[slot].n /\ tobj[slot].n <= 4

----------------------------------------------------------------------------
(* Properties of xyxy2xywh and xywh2xyxy. *)

\* A box was converted and converted back; b_out is in quarters of the unit of b_in.
RoundTrip == prog \in {"xyxy2xywh", "xywh2xyxy"} /\ pc = "done"

\* The largest magnitude among the coordinates of b.
MaxCoord(b) == CHOOSE v \in { Abs(b[c]) : c \in 1..4 } : \A c \in 1..4 : Abs(b[c]) <= v

----------------------------------------------------------------------------
(* Properties of bbox_iou, box_iou and wh_iou. *)

\* bbox_iou without a flag, or box_iou, has returned the plain IoU b_out.inter /
\* b_out.union of two boxes of positive width and height.
PlainIoU ==
    /\ \/ prog = "bbox_iou" /\ b_in.mode = "IoU"
       \/ prog = "box_iou"
    /\ pc = "done"
    /\ \A b \in {Corners(b_in.box1, b_in.x1y1x2y2), Corners(b_in.box2, b_in.x1y1x2y2)} :
            b[1] < b[3] /\ b[2] < b[4]

Identical == Corners(b_in.box1, b_in.x1y1x2y2) = Corners(b_in.box2, b_in.x1y1x2y2)

\* The two boxes share no point.
Disjoint ==
    LET b1 == Corners(b_in.box1, b_in.x1y1x2y2)
        b2 == Corners(b_in.box2, b_in.x1y1x2y2)
    IN b1[3] < b2[1] \/ b2[3] < b1[1] \/ b1[4] < b2[2] \/ b2[4] < b1[2]

IouIsOne == ~b_out.union.nan /\ b_out.inter > 0 /\ b_out.union.n = b_out.inter
IouIsZero == Positive(b_out.union) /\ b_out.inter = 0
IouInUnit == Positive(b_out.union) /\ 0 <= b_out.inter /\ b_out.inter <= b_out.union.n

C15_Denominators ==
    (prog \in {"bbox_iou", "box_iou", "wh_iou"} /\ pc = "done")
        => \A k \in 1..Len(b_out.dens) : Positive(b_out.dens[k])

----------------------------------------------------------------------------
(* Properties of torch_distributed_zero_first. *)

\* Process p has started the body of its with statement.
InBody(p) == at[p] \in {"body", "yielded", "raised", "exit"}

\* Process p has come to the end of the body of its with statement.
BodyDone(p) == at[p] \in {"yielded", "barrier_after", "exit"}

\* C18: no process with a local_rank other than -1 and 0 starts the body of
\* the with statement before every process with local_rank 0 has come to the
\* end of its body.
C18_ZeroFirst ==
    prog = "torch_distributed_zero_first"
        => \A p, q \in 1..Len(local_rank) :
                (local_rank[p] \notin {-1, 0} /\ InBody(p) /\ local_rank[q] = 0) => BodyDone(q)

\* A process with a local_rank above 0 runs the body, in a group that has two
\* processes with local_rank 0.
C18_Witness ==
    /\ prog = "torch_distributed_zero_first"
    /\ \E p, q, r \in 1..Len(local_rank) :
            /\ local_rank[p] > 0 /\ at[p] = "body"
            /\ q /= r /\ local_rank[q] = 0 /\ local_rank[r] = 0

----------------------------------------------------------------------------
(* Properties of the neighbour cells of build_targets. *)

\* C19: on an axis, a centre with a fractional part strictly between 0 and 0.5
\* and a grid coordinate above 1 is assigned to the cell below its own and not
\* to the cell above; a centre with a fractional part above 0.5 and more than 1
\* cell from the high edge is assigned to the cell above and not to the cell
\* below; a centre within 1 cell of an edge has no neighbour on that side.
C19_NearerSide ==
    (prog = "build_targets" /\ pc = "assigned") =>
        LET gxy == b_in.gxy
            frac == gxy % One
            own == gxy \div One
            high == b_in.width * One - gxy
        IN /\ (0 < frac /\ 2 * frac < One /\ gxy > One)
                => (own - 1 \in b_out.cells /\ own + 1 \notin b_out.cells)
           /\ (2 * frac > One /\ high > One)
                => (own + 1 \in b_out.cells /\ own - 1 \notin b_out.cells)
           /\ gxy <= One => own - 1 \notin b_out.cells
           /\ high <= One => own + 1 \notin b_out.cells

\* Every process has left the context, past its last line or with the
\* exception of its body.
AllLeft == \A p \in 1..Len(local_rank) : at[p] \in {"exit", "raised"}

\* C30: every process calls barrier once at most, a process with local_rank -1
\* never calls it, and every process leaves the context in the end, whether the
\* bodies come to their end or raise.
C30_AllLeave ==
    /\ [](\A p \in 1..Len(local_rank) :
            calls[p] <= 1 /\ (local_rank[p] = -1 => calls[p] = 0))
    /\ <>AllLeft

----------------------------------------------------------------------------
(* Properties of init_seeds. *)

\* C29: a call of init_seeds never has a second frame of init_seeds and never
\* ends with an exception; it seeds random and NumPy once at most, and when no
\* frame is left after the call it has returned with random, NumPy and
\* torch seeded once each.
C29_SeedsOnce ==
    (prog = "init_seeds" /\ pc = "called") =>
        /\ Len(frames) <= 1
        /\ outcome # "RecursionError"
        /\ seeded.random <= 1 /\ seeded.numpy <= 1
        /\ frames = <<>> =>
              outcome = "returned" /\ seeded = [random |-> 1, numpy |-> 1, torch |-> 1]

====
